---- MODULE Spec2Model ----
(***************************************************************************)
(* A model of lexedata's transcription cell parser                         *)
(* (src/lexedata/importer/cellparser.py) and of its cognate-table          *)
(* validator (src/lexedata/report/extended_cldf_validate.py).              *)
(*                                                                         *)
(* A Python str is a sequence of one-character strings; None is the        *)
(* one-element sequence None, which no text equals.  Every regular         *)
(* expression of the pattern library is an operator that computes the      *)
(* match the backtracking matcher of `re` finds first.  The texts of the   *)
(* model contain no line break, so `.` matches every character and `$`     *)
(* the end of the text.  The one character outside ASCII is nbsp, the      *)
(* no-break space U+00A0.                                                  *)
(***************************************************************************)
EXTENDS Integers, Sequences, FiniteSets, TLC

VARIABLES
  pc,        \* position of the generator CellParser.parse
  cell,      \* the cell text given to parse
  values,    \* self.values: the form-strings separate returned
  idx,       \* number of form-strings the loop of parse has consumed
  yielded,   \* the records yielded to the caller so far
  logged,    \* the errors printed by the except clauses, in order
  escaped,   \* the exception that left parse, or NoError
  lastForm,  \* parse_form's result for the form-string consumed last
  lastYield  \* whether the form-string consumed last was yielded

parserVars == <<pc, cell, values, idx, yielded, logged, escaped, lastForm, lastYield>>

VARIABLES
  vsPc,      \* whether a call of variants_separator has returned
  vsString,  \* the field given to variants_separator
  vsList,    \* variants_list as it was when the call began
  vsResult   \* the error raised or the value returned, and variants_list after

variantVars == <<vsPc, vsString, vsList, vsResult>>

VARIABLES
  ckPc,        \* position of check_cognate_table
  ckDataset,   \* the dataset and the log argument it was called with
  ckRow,       \* number of judgement rows the loop has consumed
  ckOkay,      \* all_judgements_okay
  ckLengths,   \* cognateset_alignment_lengths
  ckLog,       \* the diagnostics given to the log, in order
  ckResult,    \* the value returned, NoResult before
  ckException  \* the exception that left the function, or NoError

cognateVars ==
  <<ckPc, ckDataset, ckRow, ckOkay, ckLengths, ckLog, ckResult, ckException>>

VARIABLES
  exPc,              \* position of the export script
  exArgv,            \* the singleton options of the command line, in order
  exDataset,         \* the forms with their judgements, and the status column
  exArgs,            \* args.add_singletons_with_status
  exSingleton,       \* ExcelWriter.singleton
  exSingletonStatus, \* ExcelWriter.singleton_status
  exWarned,          \* the warning about the missing Status_Column was given
  exCogsets,         \* number of cognate sets the loop of create_excel consumed
  exSheet            \* the rows of the worksheet below the header, in order

exportVars ==
  <<exPc, exArgv, exDataset, exArgs, exSingleton, exSingletonStatus, exWarned,
    exCogsets, exSheet>>

VARIABLES
  cpPc,       \* position of the caller that constructs and uses a parser
  cpArgs,     \* the six pattern arguments of CellParserLexical(...)
  cpKwargs,   \* the values of the further keyword arguments (**kwargs)
  cpSelf,     \* the six pattern attributes of the parser constructed
  cpDefaults  \* the module-level dict lexical_parser_default_settings

constructVars == <<cpPc, cpArgs, cpKwargs, cpSelf, cpDefaults>>

vars == <<parserVars, variantVars, cognateVars, exportVars, constructVars>>

----------------------------------------------------------------------------
(* Strings *)

None == <<"None">>

NoError == "none"

Min(S) == CHOOSE x \in S : \A y \in S : x <= y

Max(S) == CHOOSE x \in S : \A y \in S : x >= y

\* characters matched by \s and removed by str.strip()
WhiteSpace == {" ", "\t", "nbsp"}

\* s[a..b], empty when a > b
Sub(s, a, b) == IF a > b THEN <<>> ELSE SubSeq(s, a, b)

\* s[a:] of Python, a counted from 1
From(s, a) == Sub(s, a, Len(s))

\* c in s
Has(s, c) == \E i \in 1..Len(s) : s[i] = c

\* s.count(c)
Count(s, c) == Cardinality({i \in 1..Len(s) : s[i] = c})

\* index of the first c at or after position from, 0 when there is none
FirstChar(s, from, c) ==
  LET S == {i \in from..Len(s) : s[i] = c}
  IN  IF S = {} THEN 0 ELSE Min(S)

\* index of the first character at or after p that \s does not match
SkipWs(s, p) ==
  LET S == {i \in p..Len(s) : s[i] \notin WhiteSpace}
  IN  IF S = {} THEN Len(s) + 1 ELSE Min(S)

\* s.strip(chars)
StripChars(s, chars) ==
  LET K == {i \in 1..Len(s) : s[i] \notin chars}
  IN  IF K = {} THEN <<>> ELSE SubSeq(s, Min(K), Max(K))

\* s.rstrip(chars)
RStripChars(s, chars) ==
  LET K == {i \in 1..Len(s) : s[i] \notin chars}
  IN  IF K = {} THEN <<>> ELSE SubSeq(s, 1, Max(K))

\* s.replace(c, "") for a one-character c
RemoveChar(s, c) == SelectSeq(s, LAMBDA x : x # c)

\* s startswith e at position i
StartsAt(s, i, e) ==
  /\ i + Len(e) - 1 <= Len(s)
  /\ \A k \in 1..Len(e) : s[i + k - 1] = e[k]

RECURSIVE RemoveFrom(_, _, _)
RemoveFrom(s, i, e) ==
  IF i > Len(s) THEN <<>>
  ELSE IF StartsAt(s, i, e) THEN RemoveFrom(s, i + Len(e), e)
  ELSE <<s[i]>> \o RemoveFrom(s, i + 1, e)

\* s.replace(e, "") for a non-empty e
Remove(s, e) == RemoveFrom(s, 1, e)

RECURSIVE SplitFrom(_, _, _)
SplitFrom(s, i, c) ==
  LET j == FirstChar(s, i, c)
  IN  IF j = 0 THEN <<Sub(s, i, Len(s))>>
      ELSE <<Sub(s, i, j - 1)>> \o SplitFrom(s, j + 1, c)

\* s.split(c) for a one-character c
Split(s, c) == SplitFrom(s, 1, c)

RECURSIVE Join(_, _)
\* sep.join(list)
Join(sep, list) ==
  IF list = <<>> THEN <<>>
  ELSE IF Len(list) = 1 THEN list[1]
  ELSE list[1] \o sep \o Join(sep, Tail(list))

----------------------------------------------------------------------------
(* Pattern library *)

Markers == {"~", "%"}

\* the character class of illegal_symbols_description
IllegalDescription == {"<", "/", "[", "{"}

\* the character class of illegal_symbols_transcription
IllegalTranscription == {";"}

\* illegal_symbols_description.search(s)
HasIllegalDescription(s) == \E i \in 1..Len(s) : s[i] \in IllegalDescription

\* The closer of the span that opens at q.  kind "phonemic" is /[^/]+?/ (the
\* first later slash, with at least one character before it); any other span
\* is O.+?C (the first closer with at least one character before it).
CloseIdx(s, q, kind, close) ==
  IF kind = "phonemic"
  THEN LET j == FirstChar(s, q + 1, "/") IN IF j >= q + 2 THEN j ELSE 0
  ELSE FirstChar(s, q + 2, close)

RECURSIVE RepeatEnd(_, _, _, _, _)
\* (?:\s*[~%]\s*O.+?C)* from the end e of the span matched so far: the
\* greedy star takes every repetition it can; returns the end of the last
RepeatEnd(s, e, kind, open, close) ==
  LET p == SkipWs(s, e + 1)
      q == SkipWs(s, p + 1)
      j == CloseIdx(s, q, kind, close)
  IN  IF /\ p <= Len(s)
         /\ s[p] \in Markers
         /\ q <= Len(s)
         /\ s[q] = open
         /\ j # 0
      THEN RepeatEnd(s, j, kind, open, close)
      ELSE e

\* End of group 2 when it starts at k, 0 when it does not match there.
GroupEnd(s, k, kind, open, close) ==
  IF k > Len(s) \/ s[k] # open THEN 0
  ELSE LET j == CloseIdx(s, k, kind, close)
       IN  IF j = 0 THEN 0
           ELSE IF kind = "phonemic" /\ s[j - 1] = "&" THEN 0
           ELSE IF kind = "source" THEN j
           ELSE RepeatEnd(s, j, kind, open, close)

NoMatch == [matched |-> FALSE, g1 |-> <<>>, g2 |-> <<>>, g3 |-> <<>>]

\* the groups of a match whose group 2 is s[k..e]
Groups(s, k, e) ==
  [matched |-> TRUE, g1 |-> Sub(s, 1, k - 1), g2 |-> Sub(s, k, e), g3 |-> From(s, e + 1)]

\* pat.match(s) for a pattern of my_form_pattern.  Group 1 is absent (start
\* of line) or the shortest prefix that does not end in the escape &; the
\* match is the first start, from the left, at which group 2 matches.
PatternMatch(s, kind, open, close) ==
  LET K == {k \in 1..Len(s) :
              /\ (k = 1 \/ s[k - 1] # "&")
              /\ GroupEnd(s, k, kind, open, close) # 0}
  IN  IF K = {} THEN NoMatch
      ELSE Groups(s, Min(K), GroupEnd(s, Min(K), kind, open, close))

phonemic_pattern(s) == PatternMatch(s, "phonemic", "/", "/")

phonetic_pattern(s) == PatternMatch(s, "phonetic", "[", "]")

ortho_pattern(s) == PatternMatch(s, "orthographic", "<", ">")

source_pattern(s) == PatternMatch(s, "source", "{", "}")

\* description_pattern.match(s): ^(.*?)(\(.+\))(.*)$ -- the first "(" that
\* has a ")" at least two places later, up to the last ")" of the text
description_pattern(s) ==
  LET K == {k \in 1..Len(s) :
              s[k] = "(" /\ \E j \in (k + 2)..Len(s) : s[j] = ")"}
  IN  IF K = {} THEN NoMatch
      ELSE Groups(s, Min(K), Max({i \in (Min(K) + 2)..Len(s) : s[i] = ")"}))

\* End of the match of comment_escapes, &[</\[{].+?(?:\s|.$), that starts
\* at p; 0 when there is none.
EscapeEnd(s, p) ==
  IF p + 1 > Len(s) \/ s[p] # "&" \/ s[p + 1] \notin IllegalDescription THEN 0
  ELSE LET E == {e \in (p + 3)..Len(s) : s[e] \in WhiteSpace \/ e = Len(s)}
       IN  IF E = {} THEN 0 ELSE Min(E)

RECURSIVE EscapesFrom(_, _)
EscapesFrom(s, p) ==
  LET P == {i \in p..Len(s) : EscapeEnd(s, i) # 0}
  IN  IF P = {} THEN <<>>
      ELSE LET i == Min(P)
           IN  <<Sub(s, i, EscapeEnd(s, i))>> \o EscapesFrom(s, EscapeEnd(s, i) + 1)

\* comment_escapes.findall(s)
comment_escapes(s) == EscapesFrom(s, 1)

----------------------------------------------------------------------------
(* Field extractor: CellParserLexical.parse_form *)

\* CellParser.bracket_checker
bracket_checker(opening, closing, string) ==
  IF string = <<>> THEN FALSE
  ELSE Count(string, opening) = Count(string, closing)

\* pat.sub(r"\1\3", ele) after pat.match(ele): an absent group is empty
DeleteMatch(ele, m) == IF m.matched THEN m.g1 \o m.g3 ELSE ele

\* [mutant] the field is the content of the span, without its delimiters
LabelWithoutDelimiters(m) == IF m.matched THEN Sub(m.g2, 2, Len(m.g2) - 1) ELSE None

\* d[lable] after the pattern has run
Label(m) == IF m.matched THEN m.g2 ELSE None

RECURSIVE RemoveAll(_, _)
\* for e in escapes: description_candidate = description_candidate.replace(e, "")
RemoveAll(candidate, escapes) ==
  IF escapes = <<>> THEN candidate
  ELSE RemoveAll(Remove(candidate, Head(escapes)), Tail(escapes))

\* [mutant] the escapes are not looked at
DescriptionAcceptedNoEscapes(candidate) == ~HasIllegalDescription(candidate)

\* the candidate passes the check of lines 198-212
DescriptionAccepted(candidate) ==
  \/ ~HasIllegalDescription(candidate)
  \/ ~HasIllegalDescription(RemoveAll(candidate, comment_escapes(candidate)))

RECURSIVE DescriptionLoop(_, _)
\* the while loop of parse_form: every (..) left in ele goes to the comment
DescriptionLoop(ele, mydescription) ==
  LET m == description_pattern(ele)
  IN  IF ~m.matched THEN [error |-> NoError, ele |-> ele, mydescription |-> mydescription]
      ELSE IF DescriptionAccepted(m.g2)
      THEN DescriptionLoop(m.g1 \o m.g3, mydescription \o m.g2)
      ELSE [error |-> "FormCellError", ele |-> ele, mydescription |-> mydescription]

\* [mutant] every comment is enclosed once more
EncloseAlways(mydescription) == <<"(">> \o mydescription \o <<")">>

\* the comment as parse_form encloses it (lines 230-232)
Enclose(mydescription) ==
  IF ~bracket_checker("(", ")", mydescription)
  THEN <<"(">> \o mydescription \o <<")">>
  ELSE mydescription

FormError(why) == [error |-> "FormCellError", why |-> why, form_cell |-> <<>>]

\* the labels of my_form_pattern, in its order
my_form_pattern == <<"phonemic", "phonetic", "orthographic", "source">>

\* pat.match(ele) for the pattern with this label
MatchLabel(lable, ele) ==
  CASE lable = "phonemic" -> phonemic_pattern(ele)
    [] lable = "phonetic" -> phonetic_pattern(ele)
    [] lable = "orthographic" -> ortho_pattern(ele)
    [] lable = "source" -> source_pattern(ele)

\* the body of the for loop (lines 185-191) for a match m
Matched(st, lable, m) ==
  [ele |-> DeleteMatch(st.ele, m), d |-> st.d @@ (lable :> Label(m))]

RECURSIVE FormPatterns(_, _)
\* the for loop over form_pattern (lines 183-191), from pattern i on
FormPatterns(st, i) ==
  IF i > Len(my_form_pattern) THEN st
  ELSE FormPatterns(Matched(st, my_form_pattern[i], MatchLabel(my_form_pattern[i], st.ele)),
                    i + 1)

\* [mutant] text with a transcription symbol is put in the comment too
FormCellWithoutCheck(d, mydescription, ele) ==
  [error |-> NoError, why |-> "",
   form_cell |-> <<d["phonemic"], d["phonetic"], d["orthographic"],
                   Enclose(mydescription \o ele), d["source"]>>]

\* lines 214-235: what is left of ele after the comments, and the result
FormCell(d, mydescription, ele) ==
  IF ele # <<>> /\ HasIllegalDescription(ele) THEN FormError("IncompleteParsingError")
  ELSE [error |-> NoError, why |-> "",
        form_cell |-> <<d["phonemic"], d["phonetic"], d["orthographic"],
                        Enclose(mydescription \o ele), d["source"]>>]

\* lines 193-235, after the for loop has left d and ele
Description(d, loop) ==
  IF loop.error # NoError THEN FormError("description")
  ELSE FormCell(d, loop.mydescription, StripChars(loop.ele, {" "}))

\* lines 193-235 for the state st the for loop has left
AfterPatterns(st) == Description(st.d, DescriptionLoop(st.ele, <<>>))

parse_form(formele) == AfterPatterns(FormPatterns([ele |-> formele, d |-> <<>>], 1))

----------------------------------------------------------------------------
(* Variant splitter *)

\* closers of variants_scanner
closers == ("<" :> ">") @@ ("[" :> "]") @@ ("/" :> "/")

closersValues == {closers[c] : c \in DOMAIN closers}

RECURSIVE ScanFrom(_, _, _, _, _)
ScanFrom(string, i, symbol, is_open, starter) ==
  IF i > Len(string) THEN <<>>
  ELSE LET char == string[i]
       IN  IF char \in DOMAIN closers /\ ~is_open
           THEN <<char>> \o ScanFrom(string, i + 1, symbol, TRUE, char)
           ELSE IF char = symbol
           THEN (IF is_open THEN <<closers[starter], char, starter>> ELSE <<char>>)
                  \o ScanFrom(string, i + 1, symbol, is_open, starter)
           ELSE IF char \in closersValues
           THEN <<char>> \o ScanFrom(string, i + 1, symbol, FALSE, "")
           ELSE IF is_open
           THEN <<char>> \o ScanFrom(string, i + 1, symbol, is_open, starter)
           ELSE ScanFrom(string, i + 1, symbol, is_open, starter)

\* [mutant] no bracket is inserted around the marker
variants_scannerCopy(string, symbol) == string

variants_scanner(string, symbol) == ScanFrom(string, 1, symbol, FALSE, "")

\* [(symbol + e) for e in values]
Prefixed(symbol, list) == [i \in 1..Len(list) |-> <<symbol>> \o list[i]]

\* the split on one marker (lines 276-283, 287-294)
SplitVariants(variants_list, text, symbol) ==
  LET parts == Split(variants_scanner(text, symbol), symbol)
  IN  [error |-> NoError,
       first |-> Head(parts),
       variants |-> variants_list \o Prefixed(symbol, Tail(parts))]

\* [mutant] a field without a marker is returned without its spaces
variants_separatorReturnsText(variants_list, string) ==
  LET text == RemoveChar(string, " ")
  IN  IF \E i \in 1..Len(string) : string[i] \in IllegalTranscription
      THEN [error |-> "SeparatorCellError", first |-> <<>>, variants |-> variants_list]
      ELSE IF Has(string, "~") THEN SplitVariants(variants_list, text, "~")
      ELSE IF Has(string, "%") THEN SplitVariants(variants_list, text, "%")
      ELSE [error |-> NoError, first |-> text, variants |-> variants_list]

\* [mutant] the field is not searched for ";"
variants_separatorWithoutSearch(variants_list, string) ==
  LET text == RemoveChar(string, " ")
  IN  IF Has(string, "~") THEN SplitVariants(variants_list, text, "~")
      ELSE IF Has(string, "%") THEN SplitVariants(variants_list, text, "%")
      ELSE [error |-> NoError, first |-> string, variants |-> variants_list]

variants_separator(variants_list, string) ==
  LET text == RemoveChar(string, " ")
  IN  IF \E i \in 1..Len(string) : string[i] \in IllegalTranscription
      THEN [error |-> "SeparatorCellError", first |-> <<>>, variants |-> variants_list]
      ELSE IF Has(string, "~") THEN SplitVariants(variants_list, text, "~")
      ELSE IF Has(string, "%") THEN SplitVariants(variants_list, text, "%")
      ELSE [error |-> NoError, first |-> string, variants |-> variants_list]

----------------------------------------------------------------------------
(* CellParserLexical.parsecell *)

\* e or ''
OrEmpty(e) == IF e = None THEN <<>> ELSE e

\* `if field: field = self.variants_separator(variants, field, coordinates)`
SeparateField(acc, field) ==
  IF acc.error # NoError \/ field = <<>>
  THEN [error |-> acc.error, first |-> field, variants |-> acc.variants]
  ELSE variants_separator(acc.variants, field)

CellError(kind) == [error |-> kind, record |-> <<>>]

\* [mutant] the test for an empty form is missing
NoTranscriptionNever(phonemic, phonetic, ortho) == FALSE

\* phonemic == phonetic == ortho == ""
NoTranscription(phonemic, phonetic, ortho) ==
  phonemic = <<>> /\ phonetic = <<>> /\ ortho = <<>>

\* [mutant] the comment is not tested for its brackets
RecordWithoutBracketCheck(phonemic, phonetic, ortho, description, source, variants) ==
  IF NoTranscription(phonemic, phonetic, ortho) THEN CellError("FormCellError")
  ELSE [error |-> NoError,
        record |-> <<phonemic, phonetic, ortho, description, source, Join(<<",">>, variants)>>]

\* lines 163-176 for the fields as variants_separator has left them
Record(phonemic, phonetic, ortho, description, source, variants) ==
  IF NoTranscription(phonemic, phonetic, ortho) THEN CellError("FormCellError")
  ELSE IF description # <<>> /\ ~bracket_checker("(", ")", description)
  THEN CellError("FormCellError")
  ELSE [error |-> NoError,
        record |-> <<phonemic, phonetic, ortho, description, source, Join(<<",">>, variants)>>]

\* line 160 and what follows it
SeparateOrtho(phonemic, phonetic, ortho, mymatch) ==
  IF ortho.error # NoError THEN CellError(ortho.error)
  ELSE Record(phonemic.first, phonetic.first, ortho.first, mymatch[4], mymatch[5],
              ortho.variants)

\* line 158 and what follows it
SeparatePhonetic(phonemic, phonetic, mymatch) ==
  SeparateOrtho(phonemic, phonetic, SeparateField(phonetic, mymatch[3]), mymatch)

\* line 156 and what follows it
SeparatePhonemic(phonemic, mymatch) ==
  SeparatePhonetic(phonemic, SeparateField(phonemic, mymatch[2]), mymatch)

\* [mutant] variants is not a new list: it holds a variant of an earlier form
SeparateVariantsShared(mymatch) ==
  SeparatePhonemic(SeparateField([error |-> NoError, first |-> <<>>,
                                  variants |-> << <<"~", "<", "z", ">">> >>],
                                 mymatch[1]),
                   mymatch)

\* lines 151-176 for the fields mymatch that parse_form returned
SeparateVariants(mymatch) ==
  SeparatePhonemic(SeparateField([error |-> NoError, first |-> <<>>, variants |-> <<>>],
                                 mymatch[1]),
                   mymatch)

\* lines 149-176 for the result f of parse_form
Parsed(f) ==
  IF f.error # NoError THEN CellError(f.error)
  ELSE SeparateVariants([i \in 1..5 |-> OrEmpty(f.form_cell[i])])

parsecell(ele) ==
  IF ele = <<".", ".", ".">> THEN [error |-> NoError, record |-> [i \in 1..6 |-> None]]
  ELSE Parsed(parse_form(ele))

\* CellParserLexical.parse_value
parse_value(element) == parsecell(element)

----------------------------------------------------------------------------
(* CellParser.separate and the first step of CellParser.parse *)

\* unicodedata.normalize('NFKC', values): the no-break space becomes a space
NFKC(s) == [i \in 1..Len(s) |-> IF s[i] = "nbsp" THEN " " ELSE s[i]]

\* the lookbehind and the lookahead of separator_pattern
SeparatorBefore == {"}", ")", ">", "/", "]"}

SeparatorAfter == {"<", "/", "["}

Separators == {",", ";"}

\* [mutant] the lookahead for the opening of a transcription is missing
SeparatorEndNoLookahead(s, p) ==
  LET q == SkipWs(s, p)
      r == SkipWs(s, q + 1)
  IN  IF p >= 2 /\ s[p - 1] \in SeparatorBefore /\ q <= Len(s) /\ s[q] \in Separators
      THEN r - 1
      ELSE 0

\* End of the match of separator_pattern that starts at p, 0 when none
SeparatorEnd(s, p) ==
  LET q == SkipWs(s, p)
      r == SkipWs(s, q + 1)
  IN  IF /\ p >= 2
         /\ s[p - 1] \in SeparatorBefore
         /\ q <= Len(s)
         /\ s[q] \in Separators
         /\ r <= Len(s)
         /\ s[r] \in SeparatorAfter
      THEN r - 1
      ELSE 0

RECURSIVE SplitSeparator(_, _)
\* separator_pattern.split(s), from position start on
SplitSeparator(s, start) ==
  LET P == {p \in start..Len(s) : SeparatorEnd(s, p) # 0}
  IN  IF P = {} THEN <<From(s, start)>>
      ELSE <<Sub(s, start, Min(P) - 1)>> \o SplitSeparator(s, SeparatorEnd(s, Min(P)) + 1)

\* [mutant] one character is removed from the end, and no more
CleanLastOnce(e) ==
  IF e # <<>> /\ e[Len(e)] \in {"\n", ",", ";"} THEN Sub(e, 1, Len(e) - 1) ELSE e

\* elements[-1].rstrip("\n").rstrip(",").rstrip(";")
CleanLast(e) == RStripChars(RStripChars(RStripChars(e, {"\n"}), {","}), {";"})

separate(vals) ==
  LET elements == SplitSeparator(NFKC(vals), 1)
      stripped == [i \in 1..Len(elements) |-> StripChars(elements[i], WhiteSpace)]
  IN  [i \in 1..Len(stripped) |->
         IF i = Len(stripped) THEN CleanLast(stripped[i]) ELSE stripped[i]]

\* ignore_pattern.match(s): ^(.+)#.+?#(.*)$ -- the greedy first group ends
\* before the last # that has a later # at least two places on
ignore_pattern(s) ==
  LET I == {i \in 2..Len(s) : s[i] = "#" /\ FirstChar(s, i + 2, "#") # 0}
  IN  IF I = {} THEN [matched |-> FALSE, g1 |-> <<>>, g2 |-> <<>>]
      ELSE [matched |-> TRUE,
            g1 |-> Sub(s, 1, Max(I) - 1),
            g2 |-> From(s, FirstChar(s, Max(I) + 2, "#") + 1)]

RECURSIVE StripIgnored(_)
\* the while loop of parse (lines 87-88)
StripIgnored(s) ==
  LET m == ignore_pattern(s)
  IN  IF m.matched THEN StripIgnored(m.g1 \o m.g2) ELSE s

----------------------------------------------------------------------------
(* The cell texts given to the parser *)

\* scenario A, the first doctest of separate
CellJaoca ==
  <<"<", "j", "a", "o", "c", "a", ">", " ", "(", "a", "p", "a", "r", "t", "a", "r", "-",
    "s", "e", ",", " ", "s", "e", "p", "a", "r", "a", "r", "-", "s", "e", ")", "{", "2",
    "}">>

\* scenario B
CellTwoForms ==
  <<"/", "p", "a", "l", "i", "/", " ", "(", "d", "e", " ", "f", "r", "o", "m", "e", "n",
    "t", ")", ",", " ", "/", "p", "i", "l", "a", "t", "i", "/", " ", "(", "d", "e", " ",
    "m", "a", "i", "s", " ", "c", "r", "u", ")">>

\* scenario C
CellPlaceholder ==
  <<".", ".", ".">>

\* scenario D, c3 of the module's main block
CellDummy ==
  <<"/", "p", "a", "l", "i", "/", " ", "(", "d", "e", " ", "f", "r", "o", "m", "e", "n",
    "t", " ", "=", " ", "w", "h", "e", "a", "t", "(", "N", "C", "P", ":", " ", "l", "o",
    "a", "n", ")", ",", " ", "&", "<", "d", "u", "m", "m", "y", ">", ")", ",", " ", "/",
    "p", "i", "l", "a", "t", "i", "/", " ", "(", "d", "e", " ", "m", "a", "i", "s", " ",
    "c", "r", "u", ")">>

\* scenario E
CellEricute ==
  <<"<", "e", "r", "i", "c", "u", "t", "e", "~", "e", "c", "u", "t", "e", ">">>

\* the third doctest of separate
CellSemicolonComment ==
  <<"<", "f", "o", "r", "m", ">", " ", "(", "E", "x", "a", "m", "p", "l", "e", ";", " ",
    "h", "a", "s", " ", "a", " ", "s", "e", "m", "i", "c", "o", "l", "o", "n", " ", "i",
    "n", " ", "t", "h", "e", " ", "c", "o", "m", "m", "e", "n", "t", ")", ";", " ", "<",
    "o", "t", "h", "e", "r", "f", "o", "r", "m", ">">>

\* c4 of the module's main block
CellElbow ==
  <<"/", "p", "o", "p", "i", "a", "p", "a", "t", "/", " ", "'", "b", "a", "c", "k", " ",
    "o", "f", " ", "e", "l", "b", "o", "w", "'", " ", "{", "4", "}">>

\* c5 of the module's main block
CellAyu ==
  <<"<", "a", "y", "u", ">", " ", "(", "n", "o", "m", "i", "n", "a", "l", "i", "z", "e",
    "d", " ", "&", "/", "a", "f", "a", "a", "a", "/", " ", "v", "e", "r", "s", "i", "o",
    "n", " ", "o", "f", " ", "&", "/", "e", "t", "e", "/", " ", "'", "a", "b", "o", "u",
    "t", "'", ")", " ", "{", "2", "}">>

\* a separator between no-break spaces
CellNoBreakSpace ==
  <<"<", "a", ">", "nbsp", ";", "nbsp", "/", "b", "/">>

\* variants in the orthographic, the phonetic and the phonemic field
CellVariants ==
  <<"<", "e", "~", "f", ">", " ", "[", "c", "%", "d", "]", " ", "/", "a", "~", "b", "/">>

ScenarioCells ==
  { CellJaoca, CellTwoForms, CellPlaceholder, CellDummy, CellEricute,
    CellSemicolonComment, CellElbow, CellAyu, CellNoBreakSpace, CellVariants }

\* the pieces a generated cell text is made of
Fragments ==
  { <<"<", "a", ">">>, <<"/", "b", "/">>, <<"[", "c", "]">>, <<"{", "2", "}">>,
    <<"(", "d", ")">>, <<";">>, <<",">>, <<" ">>, <<"~">>, <<"&">>,
    <<"#", "x", "#">>, <<"x">>, <<"(">>, <<")">> }

MaxFragments == 3

RECURSIVE Texts(_)
\* the concatenations of at most n fragments
Texts(n) ==
  IF n = 0 THEN {<<>>}
  ELSE LET shorter == Texts(n - 1)
       IN  shorter \cup {t \o f : t \in shorter, f \in Fragments}

FragmentCells == Texts(MaxFragments)

\* one span of each kind: phonemic, phonetic, orthographic, source
SpanSets ==
  { << <<"/", "b", "/">>, <<"[", "c", "]">>, <<"<", "a", ">">>, <<"{", "2", "}">> >>,
    << <<"/", "p", "a", "/">>, <<"[", "p", "h", "]">>, <<"<", "j", "o", ">">>,
       <<"{", "G", "6", "2", "}">> >> }

Glue == {<<>>, <<" ">>}

\* the four spans in any order, with nothing or a space between them
WellFormedForms ==
  { Join(g, [i \in 1..4 |-> spans[p[i]]]) :
      spans \in SpanSets, p \in Permutations(1..4), g \in Glue }

OrthoSpans == {<<"<", "a", ">">>, <<"<", "j", "a", "o", "c", "a", ">">>}

CommentSpans == {<<"(", "d", ")">>, <<"(", "a", "-", "s", "e", ",", " ", "s", "e", ")">>}

SourceSpans == {<<"{", "2", "}">>, <<"{", "G", "6", "2", "}">>}

\* an orthographic span, a parenthesised comment and a source span
OrthoCommentSourceForms ==
  { Join(g, [i \in 1..3 |-> <<o, c, s>>[p[i]]]) :
      o \in OrthoSpans, c \in CommentSpans, s \in SourceSpans,
      p \in Permutations(1..3), g \in Glue }

\* what stands between the parentheses of a comment candidate
CommentContents ==
  { <<"d">>, <<"&", "<", "d", ">">>, <<"<", "d", ">">>, <<"d", " ", "&", "<">>,
    <<"&", "<", "d">>, <<"&", "/", "e", "/", " ", "f">>, <<"&", "<", "e", "/", "f", " ", "g">>,
    <<"&", "[", "e", " ", "f", "{">>, <<"e", " ", "/", " ", "f">>, <<"&", "&", "<", "d", ">">>,
    <<"&", "{", "2", "}", " ", "&", "{", "2", "}", " ", "x">>, <<"&", "d">>,
    <<"d", "&", "<", "e", " ", "<", "e", " ">> }

\* an orthographic form with one comment candidate
CommentedForms ==
  { <<"<", "a", ">", " ", "(">> \o c \o <<")">> : c \in CommentContents }

\* form-strings that start with an opening and end with a closing delimiter:
\* two that parse, then a field with ";", an unparsed remainder, an
\* unbalanced comment and a comment with a transcription symbol
SequenceForms ==
  { <<"<", "a", ">">>, <<"/", "b", "/", " ", "(", "d", ")">>,
    <<"<", "a", ";", "b", ">">>, <<"<", "a", ">", "<", "a", ">">>,
    <<"<", "a", ">", "(", "d", ")", ")">>, <<"[", "c", "]", "(", "/", "d", ")">> }

SequenceSeparators == {<<";">>, <<" ", ",", " ">>}

MaxForms == 3

RECURSIVE FormSequences(_)
\* at most n form-strings with a separator between neighbours
FormSequences(n) ==
  IF n = 1 THEN SequenceForms
  ELSE LET shorter == FormSequences(n - 1)
       IN  shorter \cup {t \o s \o f : t \in shorter, s \in SequenceSeparators,
                                        f \in SequenceForms}

Cells ==
  ScenarioCells \cup FragmentCells \cup WellFormedForms \cup OrthoCommentSourceForms
    \cup CommentedForms \cup FormSequences(MaxForms)

----------------------------------------------------------------------------
(* The generator CellParser.parse, one form-string a step *)

\* [mutant] the except clause for SeparatorCellError is missing
CaughtWithoutSeparatorCellError == {"CellParsingError", "FormCellError", "IgnoreCellError"}

\* the exceptions the except clauses of parse catch (lines 99-117)
Caught == {"CellParsingError", "FormCellError", "IgnoreCellError", "SeparatorCellError"}

\* [mutant] None counts as empty
AllEmptyOrNone(element) == \A i \in 1..Len(element) : element[i] \in {<<>>, None}

\* all(ele == "" for ele in element)
AllEmpty(element) == \A i \in 1..Len(element) : element[i] = <<>>

\* what the body of the try statement does with one form-string
Asserted(r) ==
  IF r.error # NoError THEN r
  ELSE IF AllEmpty(r.record) THEN CellError("CellParsingError")
  ELSE r

TryElement(element) == Asserted(parse_value(element))

\* The module-level dict of the default patterns.  A pattern is named here by
\* where it comes from; what the default patterns match is in the operators
\* above.
lexical_parser_default_settings ==
  [name \in {"illegal_symbols_description", "illegal_symbols_transcription",
             "form_pattern", "description_pattern", "separator_pattern",
             "ignore_pattern"} |-> <<"default", name>>]

\* CellParserLexical.__init__ and the CellParser.__init__ it calls: the
\* pattern attributes of the new parser.  kwargs holds the keyword arguments
\* that are none of the six named parameters.
CellParserLexical(args, kwargs) ==
  IF \E i \in 1..Len(kwargs) : kwargs[i] # None
  THEN args
  ELSE lexical_parser_default_settings

NotCalled == [error |-> "not called", why |-> "", form_cell |-> <<>>]

ParserInit ==
  /\ pc = "idle"
  /\ cell = <<>>
  /\ values = <<>>
  /\ idx = 0
  /\ yielded = <<>>
  /\ logged = <<>>
  /\ escaped = NoError
  /\ lastForm = NotCalled
  /\ lastYield = FALSE

VariantsInit ==
  /\ vsPc = "ready"
  /\ vsString = <<>>
  /\ vsList = <<>>
  /\ vsResult = [error |-> NoError, first |-> <<>>, variants |-> <<>>]

NoResult == "none"

NoDataset ==
  [shape |-> "none", hasSlice |-> FALSE, hasAlignment |-> FALSE, strict |-> FALSE,
   rows |-> <<>>]

CognateInit ==
  /\ ckPc = "idle"
  /\ ckDataset = NoDataset
  /\ ckRow = 0
  /\ ckOkay = TRUE
  /\ ckLengths = <<>>
  /\ ckLog = <<>>
  /\ ckResult = NoResult
  /\ ckException = NoError

ExportInit ==
  /\ exPc = "idle"
  /\ exArgv = <<>>
  /\ exDataset = [forms |-> <<>>, hasStatus |-> FALSE]
  /\ exArgs = None
  /\ exSingleton = FALSE
  /\ exSingletonStatus = None
  /\ exWarned = FALSE
  /\ exCogsets = 0
  /\ exSheet = <<>>

Init ==
  /\ ParserInit /\ VariantsInit /\ CognateInit /\ ExportInit
  /\ cpPc = "idle"
  /\ cpArgs = [name \in DOMAIN lexical_parser_default_settings |-> None]
  /\ cpKwargs = <<>>
  /\ cpSelf = [name \in DOMAIN lexical_parser_default_settings |-> None]
  /\ cpDefaults = lexical_parser_default_settings

\* parse(values, coordinate) up to the head of its for loop
ParseCall ==
  /\ pc = "idle"
  /\ \E c \in Cells :
       /\ cell' = c
       /\ values' = separate(StripIgnored(c))
  /\ pc' = "iter"
  /\ idx' = 0
  /\ yielded' = <<>>
  /\ logged' = <<>>
  /\ escaped' = NoError
  /\ lastForm' = NotCalled
  /\ lastYield' = FALSE
  /\ UNCHANGED <<variantVars, cognateVars, exportVars, constructVars>>

\* one pass of the for loop of parse
ParseElement ==
  /\ pc = "iter"
  /\ idx < Len(values)
  /\ idx' = idx + 1
  /\ lastForm' = IF values[idx + 1] = <<".", ".", ".">> THEN NotCalled
                 ELSE parse_form(values[idx + 1])
  /\ \E r \in {TryElement(values[idx + 1])} :
       /\ lastYield' = (r.error = NoError)
       /\ IF r.error = NoError
          THEN /\ yielded' = Append(yielded, r.record)
               /\ UNCHANGED <<pc, logged, escaped>>
          ELSE IF r.error \in Caught
          THEN /\ logged' = Append(logged, r.error)
               /\ UNCHANGED <<pc, yielded, escaped>>
          ELSE /\ pc' = "raised"
               /\ escaped' = r.error
               /\ UNCHANGED <<yielded, logged>>
  /\ UNCHANGED <<cell, values>>
  /\ UNCHANGED <<variantVars, cognateVars, exportVars, constructVars>>

\* [mutant] the exhausted for loop starts again at the first form-string
ParseReturnRewinds ==
  /\ pc = "iter"
  /\ idx = Len(values)
  /\ idx' = 0
  /\ UNCHANGED <<pc, cell, values, yielded, logged, escaped, lastForm, lastYield>>
  /\ UNCHANGED <<variantVars, cognateVars, exportVars, constructVars>>

\* the for loop is exhausted: the generator stops
ParseReturn ==
  /\ pc = "iter"
  /\ idx = Len(values)
  /\ pc' = "done"
  /\ UNCHANGED <<cell, values, idx, yielded, logged, escaped, lastForm, lastYield>>
  /\ UNCHANGED <<variantVars, cognateVars, exportVars, constructVars>>

\* The caller drops the exhausted generator.  The next call of parse assigns
\* self.coordinate and self.values before it reads them, and every other name
\* of the call is a local, so nothing of a finished call is left to see.
Discard ==
  /\ pc \in {"done", "raised"}
  /\ pc' = "idle"
  /\ cell' = <<>>
  /\ values' = <<>>
  /\ idx' = 0
  /\ yielded' = <<>>
  /\ logged' = <<>>
  /\ escaped' = NoError
  /\ lastForm' = NotCalled
  /\ lastYield' = FALSE
  /\ UNCHANGED <<variantVars, cognateVars, exportVars, constructVars>>

Next ==
  \/ ParseCall
  \/ ParseElement
  \/ ParseReturn
  \/ Discard

Spec == Init /\ [][Next]_vars

----------------------------------------------------------------------------
(* Calls of variants_separator on their own *)

\* the closer of an opener, written out
CloserOf(open) == CASE open = "<" -> ">" [] open = "[" -> "]" [] open = "/" -> "/"

MaxVariants == 3

VariantContents == {<<>>, <<"a">>, <<"b", "c">>}

\* the sequences of 1..n contents
ContentLists(n) == UNION {[1..k -> VariantContents] : k \in 1..n}

\* the field O x1 m x2 m ... m xn C
MarkedField(open, m, xs) == <<open>> \o Join(<<m>>, xs) \o <<CloserOf(open)>>

\* fields of one bracket pair whose content is cut by one kind of marker
MarkedFields ==
  { MarkedField(open, m, xs) :
      open \in {"<", "[", "/"}, m \in Markers, xs \in ContentLists(MaxVariants) }

\* fields without a marker: with spaces, with the illegal ";", empty
PlainFields ==
  { <<"<", " ", "a", " ", "b", ">">>, <<"[", "c", " ", " ", "d", "]">>, <<"/", "b", "/">>,
    <<"<", "a", ";", "b", ">">>, <<"[", "c", " ", ";", "]">>, <<"x", " ", "y">>, <<>> }

\* fields of one bracket pair with both markers
MixedFields ==
  { <<"<", "a", "~", "b", "%", "c", ">">>, <<"[", "a", "%", "b", "~", "c", "]">>,
    <<"/", "a", " ", "~", " ", "b", "%", "c", "/">> }

Fields == MarkedFields \cup {CellEricute} \cup PlainFields \cup MixedFields

\* what variants_list may hold when a field is given to variants_separator
Accumulators ==
  { <<>>, << <<"~", "<", "z", ">">> >>,
    << <<"%", "/", "y", "/">>, <<"~", "/", "z", "/">> >> }

\* one call of variants_separator(variants_list, string, coordinate)
VariantsSeparatorCall ==
  /\ vsPc = "ready"
  /\ \E string \in Fields, variants_list \in Accumulators :
       /\ vsString' = string
       /\ vsList' = variants_list
       /\ vsResult' = variants_separator(variants_list, string)
  /\ vsPc' = "returned"
  /\ UNCHANGED <<parserVars, cognateVars, exportVars, constructVars>>

\* the caller takes the result; the next call has its own arguments
VariantsSeparatorDone ==
  /\ vsPc = "returned"
  /\ vsPc' = "ready"
  /\ vsString' = <<>>
  /\ vsList' = <<>>
  /\ vsResult' = [error |-> NoError, first |-> <<>>, variants |-> <<>>]
  /\ UNCHANGED <<parserVars, cognateVars, exportVars, constructVars>>

NextVariants ==
  \/ VariantsSeparatorCall
  \/ VariantsSeparatorDone

SpecVariants == Init /\ [][NextVariants]_vars

----------------------------------------------------------------------------
(* The cognate-table validator check_cognate_table *)

\* the forms of the dataset and their segments (the FormTable of the tests)
FormSegments ==
  [form \in {"one", "two"} |->
     IF form = "one" THEN << <<"w">>, <<"a">>, <<"n">> >> ELSE << <<"t">>, <<"u">> >>]

CognateSets == {"s1", "s2"}

Row(form, cognateset, slice, alignment) ==
  [form |-> form, cognateset |-> cognateset, slice |-> slice, alignment |-> alignment]

\* The judgement rows a CognateTable is made of.  A segment slice is a list
\* of pairs <<start, end>>, the text "start:end" of the column taken apart.
JudgementRows ==
  { Row("two", "s1", << <<1, 2>> >>, << <<"t">>, <<"u">> >>),
    Row("two", "s1", << <<1, 3>> >>, << <<"t">>, <<"u">> >>),
    Row("two", "s1", <<>>, << <<"t">>, <<"u">> >>),
    Row("two", "s1", <<>>, << <<"-">> >>),
    Row("two", "s1", << <<1, 2>> >>, << <<"t">>, <<"-">>, <<"u">> >>),
    Row("two", "s1", << <<2, 2>> >>, << <<"u">> >>),
    Row("two", "s2", << <<1, 2>> >>, << <<"t">>, <<"w">> >>),
    Row("one", "s1", << <<1, 3>> >>, << <<"w">>, <<"a">>, <<"n">> >>),
    Row("one", "s2", << <<1, 3>> >>, << <<"w">>, <<"a">>, <<"n">> >>),
    Row("one", "s1", << <<1, 4>> >>, << <<"w">>, <<"a">>, <<"n">> >>),
    Row("one", "s2", << <<1, 1>>, <<3, 3>> >>, << <<"w">>, <<"-">>, <<"n">> >>) }

MaxRows == 2

\* the tables of at most n rows
Tables(n) == UNION {[1..k -> JudgementRows] : k \in 0..n}

\* "no CognateTable", a column or the foreign key missing, the foreign key
\* pointing to a table that is no FormTable, or all of them as they should be
Shapes ==
  { "no CognateTable", "no formReference", "no cognatesetReference", "no foreign key",
    "not a FormTable", "ok" }

\* A dataset together with the log argument: strict is log=None.
Datasets ==
  { [shape |-> shape, hasSlice |-> hs, hasAlignment |-> ha, strict |-> strict, rows |-> rows] :
      shape \in {"not a FormTable", "ok"}, hs \in BOOLEAN, ha \in BOOLEAN,
      strict \in BOOLEAN, rows \in Tables(MaxRows) }
  \cup
  { [shape |-> shape, hasSlice |-> TRUE, hasAlignment |-> TRUE, strict |-> strict,
     rows |-> <<>>] :
      shape \in Shapes \ {"not a FormTable", "ok"}, strict \in BOOLEAN }

\* range(a, b + 1) as a list
Range(a, b) == [i \in 1..(b - a + 1) |-> a + i - 1]

RECURSIVE parse_segment_slices(_)
\* 1-based inclusive ranges, turned into 0-based indices
parse_segment_slices(slices) ==
  IF slices = <<>> THEN <<>>
  ELSE Range(Head(slices)[1] - 1, Head(slices)[2] - 1) \o parse_segment_slices(Tail(slices))

\* clldutils' log_or_raise(msg, log=log): a warning to the log, or a ValueError
\* when there is no log
log_or_raise(st, msg, strict) ==
  IF st.exception # NoError THEN st
  ELSE IF strict THEN [st EXCEPT !.exception = "ValueError"]
  ELSE [st EXCEPT !.log = Append(@, msg)]

\* all_judgements_okay = False, unless an exception is on its way
NotOkay(st) == IF st.exception # NoError THEN st ELSE [st EXCEPT !.okay = FALSE]

\* [c for c in alignment if c != "-"]
WithoutGaps(alignment) == SelectSeq(alignment, LAMBDA c : c # <<"-">>)

\* lines 45-108: what check_cognate_table does before it looks at a row.
\* done tells that it has returned or raised.
Prologue(d) ==
  LET st0 == [okay |-> TRUE, log |-> <<>>, exception |-> NoError, result |-> NoResult,
              done |-> FALSE]
      Fail(msg) ==
        LET st == log_or_raise(st0, <<0, msg>>, d.strict)
        IN  [st EXCEPT !.done = TRUE,
                       !.result = IF st.exception = NoError THEN FALSE ELSE NoResult]
      st1 == IF d.shape = "not a FormTable"
             THEN log_or_raise(st0, <<0, "not a FormTable">>, d.strict)
             ELSE st0
      st2 == IF d.hasSlice THEN st1
             ELSE log_or_raise(st1, <<0, "no segmentSlice column">>, d.strict)
      st3 == IF d.hasAlignment THEN st2
             ELSE log_or_raise(st2, <<0, "no alignment column">>, d.strict)
  IN  IF d.shape = "no CognateTable" THEN [st0 EXCEPT !.done = TRUE, !.result = TRUE]
      ELSE IF d.shape \in {"no formReference", "no cognatesetReference", "no foreign key"}
      THEN Fail(d.shape)
      ELSE IF st3.exception # NoError THEN [st3 EXCEPT !.done = TRUE]
      ELSE IF ~d.hasSlice /\ ~d.hasAlignment THEN [st3 EXCEPT !.done = TRUE, !.result = TRUE]
      ELSE st3

\* lines 124-141: the segment slice of row n.  skip is the continue of line 127.
CheckSlice(st, d, n) ==
  LET judgement == d.rows[n]
      form_segments == FormSegments[judgement.form]
      included == parse_segment_slices(judgement.slice)
      indices == {included[i] : i \in 1..Len(included)}
      base == [okay |-> st.okay, lengths |-> st.lengths, log |-> st.log,
               exception |-> st.exception, skip |-> FALSE,
               included |-> Range(0, Len(form_segments) - 1)]
  IN  IF ~d.hasSlice THEN base
      ELSE IF judgement.slice = <<>>
      THEN [log_or_raise(base, <<n, "empty segment slice">>, d.strict)
              EXCEPT !.skip = TRUE, !.included = <<>>]
      ELSE IF included = <<>>
      THEN [base EXCEPT !.exception = "ValueError", !.included = <<>>]
      ELSE IF Max(indices) >= Len(form_segments)
      THEN [NotOkay(log_or_raise(base, <<n, "segment slice invalid">>, d.strict))
              EXCEPT !.included = included]
      ELSE [base EXCEPT !.included = included]

\* [mutant] the gaps are not counted
CheckLengthWithoutGaps(st, d, n) ==
  LET judgement == d.rows[n]
      lengths == st.lengths[judgement.cognateset]
      alignment_length == Len(WithoutGaps(judgement.alignment))
  IN  IF lengths # {} /\ alignment_length \notin lengths
      THEN NotOkay(log_or_raise(st, <<n, "alignment length">>, d.strict))
      ELSE IF lengths = {}
      THEN [st EXCEPT !.lengths[judgement.cognateset] = {alignment_length}]
      ELSE st

\* [mutant] only an alignment longer than the first one is reported
CheckLengthLonger(st, d, n) ==
  LET judgement == d.rows[n]
      lengths == st.lengths[judgement.cognateset]
      alignment_length == Len(judgement.alignment)
  IN  IF lengths # {} /\ alignment_length > Max(lengths)
      THEN NotOkay(log_or_raise(st, <<n, "alignment length">>, d.strict))
      ELSE IF lengths = {}
      THEN [st EXCEPT !.lengths[judgement.cognateset] = {alignment_length}]
      ELSE st

\* lines 143-156: the length of the alignment of row n against its cognate set
CheckLength(st, d, n) ==
  LET judgement == d.rows[n]
      lengths == st.lengths[judgement.cognateset]
      alignment_length == Len(judgement.alignment)
  IN  IF lengths # {} /\ alignment_length \notin lengths
      THEN NotOkay(log_or_raise(st, <<n, "alignment length">>, d.strict))
      ELSE IF lengths = {}
      THEN [st EXCEPT !.lengths[judgement.cognateset] = {alignment_length}]
      ELSE st

\* lines 163-172: the alignment of row n against the segments of its form
CheckSegments(st, d, n) ==
  LET judgement == d.rows[n]
      form_segments == FormSegments[judgement.form]
      without_gaps == Join(<<" ">>, WithoutGaps(judgement.alignment))
      actual_segments ==
        Join(<<" ">>, [i \in 1..Len(st.included) |-> form_segments[st.included[i] + 1]])
  IN  IF st.exception # NoError THEN st
      ELSE IF \E i \in 1..Len(st.included) : st.included[i] >= Len(form_segments)
      THEN [st EXCEPT !.exception = "IndexError"]
      ELSE IF StripChars(without_gaps, WhiteSpace) # StripChars(actual_segments, WhiteSpace)
      THEN NotOkay(log_or_raise(st, <<n, "alignment and segments differ">>, d.strict))
      ELSE st

\* one pass of the for loop over the judgements (lines 120-172)
ProcessRow(st, d, n) ==
  LET sliced == CheckSlice(st, d, n)
  IN  IF sliced.exception # NoError \/ sliced.skip \/ ~d.hasAlignment THEN sliced
      ELSE CheckSegments(CheckLength(sliced, d, n), d, n)

\* check_cognate_table(dataset, log) up to the head of its for loop
CheckCall ==
  /\ ckPc = "idle"
  /\ \E d \in Datasets :
       LET st == Prologue(d)
       IN  /\ ckDataset' = d
           /\ ckLog' = st.log
           /\ ckResult' = st.result
           /\ ckException' = st.exception
           /\ ckPc' = IF st.exception # NoError THEN "raised"
                      ELSE IF st.done THEN "returned" ELSE "rows"
  /\ ckRow' = 0
  /\ ckOkay' = TRUE
  /\ ckLengths' = [c \in CognateSets |-> {}]
  /\ UNCHANGED <<parserVars, variantVars, exportVars, constructVars>>

\* the loop takes the next judgement
CheckRow ==
  /\ ckPc = "rows"
  /\ ckRow < Len(ckDataset.rows)
  /\ LET st == ProcessRow([okay |-> ckOkay, lengths |-> ckLengths, log |-> ckLog,
                           exception |-> NoError], ckDataset, ckRow + 1)
     IN  /\ ckOkay' = st.okay
         /\ ckLengths' = st.lengths
         /\ ckLog' = st.log
         /\ ckException' = st.exception
         /\ ckPc' = IF st.exception # NoError THEN "raised" ELSE "rows"
  /\ ckRow' = ckRow + 1
  /\ UNCHANGED <<ckDataset, ckResult>>
  /\ UNCHANGED <<parserVars, variantVars, exportVars, constructVars>>

\* return all_judgements_okay
CheckReturn ==
  /\ ckPc = "rows"
  /\ ckRow = Len(ckDataset.rows)
  /\ ckPc' = "returned"
  /\ ckResult' = ckOkay
  /\ UNCHANGED <<ckDataset, ckRow, ckOkay, ckLengths, ckLog, ckException>>
  /\ UNCHANGED <<parserVars, variantVars, exportVars, constructVars>>

\* the caller has the result or the exception; nothing outlives the call
CheckDone ==
  /\ ckPc \in {"returned", "raised"}
  /\ ckPc' = "idle"
  /\ ckDataset' = NoDataset
  /\ ckRow' = 0
  /\ ckOkay' = TRUE
  /\ ckLengths' = <<>>
  /\ ckLog' = <<>>
  /\ ckResult' = NoResult
  /\ ckException' = NoError
  /\ UNCHANGED <<parserVars, variantVars, exportVars, constructVars>>

NextCognate ==
  \/ CheckCall
  \/ CheckRow
  \/ CheckReturn
  \/ CheckDone

SpecCognate == Init /\ [][NextCognate]_vars

----------------------------------------------------------------------------
(* The cognate export: the singleton options, ExcelWriter, after_filling *)

AutomaticSingleton == <<"automatic singleton">>

Messages == {<<"checked">>, AutomaticSingleton}

\* --add-singletons and --add-singletons-with-status MESSAGE
SingletonOptions ==
  {[flag |-> "--add-singletons", message |-> <<>>]}
    \cup {[flag |-> "--add-singletons-with-status", message |-> m] : m \in Messages}

\* command lines with no, one or two singleton options
Argvs ==
  {<<>>} \cup {<<o>> : o \in SingletonOptions}
    \cup {<<o1, o2>> : o1 \in SingletonOptions, o2 \in SingletonOptions}

\* args.add_singletons_with_status: both options store to it, the later wins
parse_args(argv) ==
  IF argv = <<>> THEN None
  ELSE IF argv[Len(argv)].flag = "--add-singletons" THEN AutomaticSingleton
  ELSE argv[Len(argv)].message

ExportLanguages == {"l1", "l2"}

\* the cognate sets of the CognatesetTable, sorted by id
ExportCogsets == <<"s1", "s2">>

NoCogset == "no judgement"

Digit(i) == <<"1", "2", "3", "4", "5", "6", "7", "8", "9">>[i]

MaxExportForms == 3

\* form i of the FormTable; the forms alternate between l1, l1 and l2
ExportForm(i, c) ==
  [id |-> <<"f", Digit(i)>>,
   languageReference |-> IF i % 3 = 0 THEN "l2" ELSE "l1",
   cognateset |-> c]

ExportDatasets ==
  UNION { { [forms |-> [i \in 1..n |-> ExportForm(i, cs[i])], hasStatus |-> h] :
              cs \in [1..n -> {NoCogset, "s1", "s2"}], h \in BOOLEAN } :
          n \in 0..MaxExportForms }

\* collect_forms_by_row()[c]: the forms with a judgement for cognate set c
collect_forms_by_row(d, c) == SelectSeq(d.forms, LAMBDA f : f.cognateset = c)

\* a row of the sheet: the header cells and the form cells by language
SheetRow(id, name, status, cells) ==
  [id |-> id, name |-> name, status |-> status, cells |-> cells]

NoColumn == <<"no column">>

\* create_formcells and write_row_header for one cognate set
create_formcells(d, c) ==
  LET forms == collect_forms_by_row(d, c)
      InLanguage(fs, l) == SelectSeq(fs, LAMBDA f : f.languageReference = l)
      maximum_cogset == Max({Len(InLanguage(forms, l)) : l \in ExportLanguages})
  IN  [k \in 1..maximum_cogset |->
         SheetRow(<<c>>, <<c>>, IF d.hasStatus THEN <<>> ELSE NoColumn,
                  { <<l, InLanguage(forms, l)[k].id>> :
                      l \in {x \in ExportLanguages : Len(InLanguage(forms, x)) >= k} })]

\* the forms left in all_forms when those with a judgement are popped
RemainingForms(d) == SelectSeq(d.forms, LAMBDA f : f.cognateset = NoCogset)

\* the row after_filling writes for form number i of the remaining forms
SingletonRow(d, singleton_status, i, form) ==
  SheetRow(<<"X", Digit(i), "_", form.languageReference>>, form.id,
           IF ~d.hasStatus THEN NoColumn
           ELSE IF singleton_status # None THEN singleton_status ELSE <<>>,
           {<<form.languageReference, form.id>>})

\* ExcelWriter.after_filling: the rows it adds to the sheet
after_filling(d, singleton, singleton_status) ==
  IF ~singleton THEN <<>>
  ELSE [i \in 1..Len(RemainingForms(d)) |->
          SingletonRow(d, singleton_status, i, RemainingForms(d)[i])]

\* the script reads its command line and the dataset
ExportParseArgs ==
  /\ exPc = "idle"
  /\ \E argv \in Argvs, d \in ExportDatasets :
       /\ exArgv' = argv
       /\ exDataset' = d
       /\ exArgs' = parse_args(argv)
  /\ exPc' = "parsed"
  /\ UNCHANGED <<exSingleton, exSingletonStatus, exWarned, exCogsets, exSheet>>
  /\ UNCHANGED <<parserVars, variantVars, cognateVars, constructVars>>

\* E = ExcelWriter(dataset, ..., singleton_cognate=..., singleton_status=...)
ExportConstruct ==
  /\ exPc = "parsed"
  /\ exSingleton' = (exArgs = None)
  /\ exSingletonStatus' = exArgs
  /\ exWarned' = (exArgs # None /\ ~exDataset.hasStatus)
  /\ exPc' = "rows"
  /\ UNCHANGED <<exArgv, exDataset, exArgs, exCogsets, exSheet>>
  /\ UNCHANGED <<parserVars, variantVars, cognateVars, constructVars>>

\* one turn of the loop of create_excel over the cognate sets
ExportCogset ==
  /\ exPc = "rows"
  /\ exCogsets < Len(ExportCogsets)
  /\ exCogsets' = exCogsets + 1
  /\ exSheet' =
       IF collect_forms_by_row(exDataset, ExportCogsets[exCogsets + 1]) = <<>>
       THEN exSheet
       ELSE exSheet \o create_formcells(exDataset, ExportCogsets[exCogsets + 1])
  /\ UNCHANGED <<exPc, exArgv, exDataset, exArgs, exSingleton, exSingletonStatus, exWarned>>
  /\ UNCHANGED <<parserVars, variantVars, cognateVars, constructVars>>

\* self.after_filling(row_index) and self.wb.save(filename=out)
ExportAfterFilling ==
  /\ exPc = "rows"
  /\ exCogsets = Len(ExportCogsets)
  /\ exSheet' = exSheet \o after_filling(exDataset, exSingleton, exSingletonStatus)
  /\ exPc' = "saved"
  /\ UNCHANGED <<exArgv, exDataset, exArgs, exSingleton, exSingletonStatus, exWarned,
                 exCogsets>>
  /\ UNCHANGED <<parserVars, variantVars, cognateVars, constructVars>>

NextExport ==
  \/ ExportParseArgs
  \/ ExportConstruct
  \/ ExportCogset
  \/ ExportAfterFilling

SpecExport == Init /\ [][NextExport]_vars

----------------------------------------------------------------------------
(* The construction of a CellParserLexical *)

\* parser = CellParserLexical(...): every pattern argument is left out (None)
\* or given, and there is no further keyword argument, one that is None, or
\* one with a true value
Construct ==
  /\ cpPc # "constructed"
  /\ \E given \in SUBSET DOMAIN lexical_parser_default_settings,
        kwargs \in {<<>>, <<None>>, << <<"t", "r", "u", "e">> >>} :
       /\ cpArgs' = [name \in DOMAIN lexical_parser_default_settings |->
                       IF name \in given THEN <<"given", name>> ELSE None]
       /\ cpKwargs' = kwargs
       /\ cpSelf' = CellParserLexical(cpArgs', kwargs)
  /\ cpPc' = "constructed"
  /\ UNCHANGED cpDefaults
  /\ UNCHANGED <<parserVars, variantVars, cognateVars, exportVars>>

\* parser.parse(values, coordinate) reaches self.ignore_pattern.match(values)
\* (line 87), an AttributeError when the attribute is None
ConstructParse ==
  /\ cpPc = "constructed"
  /\ cpPc' = IF cpSelf["ignore_pattern"] = None THEN "raised" ELSE "parsing"
  /\ UNCHANGED <<cpArgs, cpKwargs, cpSelf, cpDefaults>>
  /\ UNCHANGED <<parserVars, variantVars, cognateVars, exportVars>>

NextConstruct ==
  \/ Construct
  \/ ConstructParse

SpecConstruct == Init /\ [][NextConstruct]_vars

----------------------------------------------------------------------------
(* Claims about the cell parser, checked under Spec *)

Placeholder == <<".", ".", ".">>

AllNone == [i \in 1..6 |-> None]

RECURSIVE C1_Records(_)
C1_Records(elements) ==
  IF elements = <<>> THEN <<>>
  ELSE LET r == parsecell(Head(elements))
       IN  (IF r.error = NoError THEN <<r.record>> ELSE <<>>) \o C1_Records(Tail(elements))

\* C1: no error of a form-string leaves parse, and what parse has yielded is
\* the list of the form-strings consumed so far, in order, without the ones
\* that failed and with each other one replaced by its record; the generator
\* stops only when every form-string of the cell has been consumed.
C1_ErrorsAreSkipped ==
  /\ pc # "raised"
  /\ escaped = NoError
  /\ pc \in {"iter", "done"} => yielded = C1_Records(SubSeq(values, 1, idx))
  /\ pc = "done" => idx = Len(values)

\* a finished cell in which form-strings failed with each kind of error
\* before a later one was yielded
C1_Witness ==
  /\ pc = "done"
  /\ \E i, j, k \in 1..Len(values) :
       /\ i < k /\ j < k
       /\ parsecell(values[i]).error = "SeparatorCellError"
       /\ parsecell(values[j]).error = "FormCellError"
       /\ parsecell(values[k]).error = NoError
  /\ yielded # <<>>

C2_Text == NFKC(StripIgnored(cell))

\* the "," and ";" of t that follow a closing and precede an opening
\* delimiter, spaces apart
C2_Cuts(t) ==
  {q \in 1..Len(t) :
     /\ t[q] \in {",", ";"}
     /\ \E a \in 1..(q - 1) :
          /\ t[a] \in {"}", ")", ">", "/", "]"}
          /\ \A i \in (a + 1)..(q - 1) : t[i] = " "
     /\ \E b \in (q + 1)..Len(t) :
          /\ t[b] \in {"<", "/", "["}
          /\ \A i \in (q + 1)..(b - 1) : t[i] = " "}

RECURSIVE C2_Pieces(_, _, _)
\* what stands between the cuts of t from position from on, without the
\* spaces around it, and the last piece without "," and ";" at its end
C2_Pieces(t, cuts, from) ==
  LET later == {q \in cuts : q >= from}
  IN  IF later = {} THEN <<CleanLast(StripChars(From(t, from), {" "}))>>
      ELSE <<StripChars(Sub(t, from, Min(later) - 1), {" "})>>
             \o C2_Pieces(t, cuts, Min(later) + 1)

\* C2: separate cuts the cell at exactly the "," and ";" that follow one of
\* } ) > / ] and precede one of < / [ (spaces apart); the doctest cell with a
\* semicolon in its comment gives its two form-strings.
C2_SplitsOnlyBetweenDelimiters ==
  pc \in {"iter", "done"} =>
    /\ values = C2_Pieces(C2_Text, C2_Cuts(C2_Text), 1)
    /\ cell = CellSemicolonComment =>
         values = <<Sub(CellSemicolonComment, 1, 48), From(CellSemicolonComment, 51)>>

\* the doctest cell is separated, and so is a cell with a "," or ";" that
\* cuts and another that does not
C2_Witness ==
  /\ pc = "iter"
  /\ \/ cell = CellSemicolonComment
     \/ /\ Cardinality(C2_Cuts(C2_Text)) = 2
        /\ Cardinality({q \in 1..Len(C2_Text) : C2_Text[q] \in {",", ";"}}) > 3

\* C7: the form-string "..." is yielded as one record of six nulls; the
\* empty-record check of parse does not reject it.
C7_PlaceholderIsYielded ==
  /\ (pc \in {"iter", "done"} /\ idx >= 1 /\ values[idx] = Placeholder) =>
       /\ lastYield
       /\ yielded[Len(yielded)] = AllNone
  /\ (pc = "done" /\ cell = Placeholder) => yielded = <<AllNone>>

C7_Witness == pc = "done" /\ cell = CellPlaceholder /\ Len(yielded) = 1

\* form-strings with a comment, a source, both or neither, and no transcription
C8_NoTranscriptionForms ==
  {<<>>} \cup CommentSpans \cup SourceSpans
    \cup {c \o g \o s : c \in CommentSpans, g \in Glue, s \in SourceSpans}
    \cup {s \o g \o c : c \in CommentSpans, g \in Glue, s \in SourceSpans}

\* C8: a record that parse yields is all null, and then its form-string was
\* "...", or one of its phonemic, phonetic and orthographic fields is not
\* empty; a form-string with nothing but a comment and a source yields none.
C8_RecordsHaveATranscription ==
  /\ \A n \in 1..Len(yielded) :
       \/ yielded[n] = AllNone /\ \E i \in 1..idx : values[i] = Placeholder
       \/ /\ \A k \in 1..6 : yielded[n][k] # None
          /\ \E k \in 1..3 : yielded[n][k] # <<>>
  /\ (pc \in {"iter", "done"} /\ idx >= 1 /\ lastYield /\ values[idx] # Placeholder) =>
       yielded[Len(yielded)] # AllNone
  /\ (pc \in {"iter", "done"} /\ idx >= 1 /\ values[idx] \in C8_NoTranscriptionForms) =>
       ~lastYield

\* a comment with a source has been refused, and so has a blank cell
C8_Witness ==
  /\ pc = "done"
  /\ idx = 1
  /\ values[1] \in C8_NoTranscriptionForms
  /\ Len(values[1]) > 3
  /\ yielded = <<>>

\* a span without its first and its last character
Inner(span) == Sub(span, 2, Len(span) - 1)

\* the form-string consumed last
LastElement == values[idx]

Consumed == pc \in {"iter", "done"} /\ idx >= 1

\* C3: for a form-string of one phonemic, one phonetic, one orthographic and
\* one source span with nothing but spaces between them, parse_form returns
\* the content of each span without its delimiters, and an empty comment.
C3_SpansWithoutDelimiters ==
  \A spans \in SpanSets, p \in Permutations(1..4), g \in Glue :
    (Consumed /\ LastElement = Join(g, [i \in 1..4 |-> spans[p[i]]])) =>
      /\ lastForm.error = NoError
      /\ lastForm.form_cell =
           <<Inner(spans[1]), Inner(spans[2]), Inner(spans[3]), <<>>, Inner(spans[4])>>

\* C4 as the specification has it: orthographic = "jaoca", source = "2"
C4_DelimitersStripped ==
  (pc = "done" /\ cell = CellJaoca) =>
    /\ Len(yielded) = 1
    /\ SubSeq(yielded[1], 1, 5) =
         <<<<>>, <<>>, Sub(CellJaoca, 2, 6), Sub(CellJaoca, 9, 32), Sub(CellJaoca, 34, 34)>>

\* C4: the cell "<jaoca> (apartar-se, separar-se){2}" yields one record with
\* orthographic "<jaoca>", comment "(apartar-se, separar-se)", source "{2}"
\* and empty phonemic and phonetic fields; a form-string of one orthographic
\* span, one parenthesised comment and one source span, each of plain text,
\* yields one record with the two spans, delimiters kept, and the comment
\* with its parentheses.
C4_SpansKeepDelimiters ==
  /\ (pc = "done" /\ cell = CellJaoca) =>
       /\ Len(yielded) = 1
       /\ SubSeq(yielded[1], 1, 5) =
            <<<<>>, <<>>, Sub(CellJaoca, 1, 7), Sub(CellJaoca, 9, 32), Sub(CellJaoca, 33, 35)>>
  /\ (pc = "done" /\ cell \in OrthoCommentSourceForms) =>
       \A o \in OrthoSpans, c \in CommentSpans, src \in SourceSpans,
          p \in Permutations(1..3), g \in Glue :
         cell = Join(g, [i \in 1..3 |-> <<o, c, src>>[p[i]]]) =>
           yielded = << <<<<>>, <<>>, o, c, src, <<>>>> >>

C4_Witness ==
  /\ pc = "done"
  /\ cell = CellJaoca
  /\ Len(yielded) = 1
  /\ yielded[1][3] = Sub(CellJaoca, 1, 7)

C6_Form(content) == <<"<", "a", ">", " ", "(">> \o content \o <<")">>

C6_Symbols == {"<", "/", "[", "{"}

\* every < / [ { of the content has & right before it
C6_EachEscaped(content) ==
  \A i \in 1..Len(content) :
    content[i] \in C6_Symbols => (i > 1 /\ content[i - 1] = "&")

\* C6 as the specification has it: accepted only if every < / [ { has & right
\* before it, added as it stands, and refused otherwise
C6_EverySymbolEscaped ==
  \A content \in CommentContents :
    (Consumed /\ LastElement = C6_Form(content)) =>
      /\ lastYield => C6_EachEscaped(content)
      /\ lastYield => yielded[Len(yielded)][4] = <<"(">> \o content \o <<")">>
      /\ ~C6_EachEscaped(content) => ~lastYield

\* the end of the escape token that starts at a, 0 when none starts there:
\* & and one of < / [ {, then up to the next space at least two places on,
\* or to the end of the text
C6_TokenEnd(t, a) ==
  IF a + 1 <= Len(t) /\ t[a] = "&" /\ t[a + 1] \in C6_Symbols
  THEN LET E == {b \in (a + 3)..Len(t) : t[b] = " " \/ b = Len(t)}
       IN  IF E = {} THEN 0 ELSE Min(E)
  ELSE 0

RECURSIVE C6_Tokens(_, _)
C6_Tokens(t, from) ==
  IF \A a \in from..Len(t) : C6_TokenEnd(t, a) = 0 THEN <<>>
  ELSE LET a == Min({x \in from..Len(t) : C6_TokenEnd(t, x) # 0})
       IN  <<Sub(t, a, C6_TokenEnd(t, a))>> \o C6_Tokens(t, C6_TokenEnd(t, a) + 1)

RECURSIVE C6_Deleted(_, _)
C6_Deleted(t, tokens) ==
  IF tokens = <<>> THEN t ELSE C6_Deleted(Remove(t, Head(tokens)), Tail(tokens))

\* C6: a comment candidate is accepted exactly when none of < / [ { is left
\* in it once the text of each of its escape tokens has been deleted; an
\* accepted candidate is added to the comment as it stands, & kept, and a
\* refused one leaves the form-string without a record.
C6_EscapeTokensAreDeleted ==
  (Consumed /\ LastElement \in CommentedForms) =>
    \A content \in CommentContents :
      LastElement = C6_Form(content) =>
        LET candidate == <<"(">> \o content \o <<")">>
            left == C6_Deleted(candidate, C6_Tokens(candidate, 1))
        IN  /\ lastYield <=> (\A i \in 1..Len(left) : left[i] \notin C6_Symbols)
            /\ lastYield => yielded[Len(yielded)][4] = candidate

\* the comment "(&/e/ f)" is accepted although its second / has no & before it
C6_Witness ==
  /\ pc = "done"
  /\ values = <<C6_Form(<<"&", "/", "e", "/", " ", "f">>)>>
  /\ lastYield
  /\ yielded[1][4] = <<"(", "&", "/", "e", "/", " ", "f", ")">>

----------------------------------------------------------------------------
(* Claims about the validator, checked under SpecCognate *)

\* the validator was given a log and a CognateTable with the columns named
C9_Scope == ckDataset.shape = "ok" /\ ~ckDataset.strict /\ ckDataset.hasSlice

\* the slice of row n names an index at or after the end of its form
C9_OutOfRange(n) ==
  LET r == ckDataset.rows[n]
  IN  \E i \in 1..Len(r.slice) : r.slice[i][2] - 1 >= Len(FormSegments[r.form])

\* C9: for a row with a non-empty segment slice, every index of the slice is
\* below the number of segments of the form, or the slice is reported and
\* the result is false; 1:n on n segments is in range, 1:n+1 is reported.
C9_SliceInRangeOrReported ==
  C9_Scope =>
    \A n \in 1..ckRow :
      /\ C9_OutOfRange(n) =>
           /\ \E k \in 1..Len(ckLog) : ckLog[k] = <<n, "segment slice invalid">>
           /\ ckPc # "raised"
           /\ ckPc = "returned" => ckResult = FALSE
      /\ ~C9_OutOfRange(n) =>
           \A k \in 1..Len(ckLog) : ckLog[k] # <<n, "segment slice invalid">>

C10_Scope == ckDataset.shape = "ok" /\ ~ckDataset.strict /\ ckDataset.hasAlignment

\* the segments of the form of row n that its slice selects
C10_Selected(n) ==
  LET r == ckDataset.rows[n]
      segments == FormSegments[r.form]
      indices == IF ckDataset.hasSlice THEN parse_segment_slices(r.slice)
                 ELSE [i \in 1..Len(segments) |-> i - 1]
  IN  [i \in 1..Len(indices) |-> segments[indices[i] + 1]]

\* C10: for a row with an alignment, the alignment without its gaps is
\* compared with the selected segments of the form: if they differ there is
\* a diagnostic and the result is false, if they are equal this check is
\* silent.
C10_AlignmentMatchesSegments ==
  (C10_Scope /\ ckPc = "returned") =>
    \A n \in 1..ckRow :
      LET gapless == SelectSeq(ckDataset.rows[n].alignment, LAMBDA c : c # <<"-">>)
      IN  /\ gapless # C10_Selected(n) =>
               /\ \E k \in 1..Len(ckLog) : ckLog[k][1] = n
               /\ ckResult = FALSE
          /\ gapless = C10_Selected(n) =>
               \A k \in 1..Len(ckLog) : ckLog[k] # <<n, "alignment and segments differ">>

\* a CognateTable with its columns, given with a log
C11_Scope == ckDataset.shape = "ok" /\ ~ckDataset.strict /\ ckDataset.hasAlignment

\* the diagnostic of this kind has been given for row n
Reported(n, kind) == \E k \in 1..Len(ckLog) : ckLog[k] = <<n, kind>>

\* C11: with a log, either the alignments of the rows of each cognate set
\* have one length, or there is an alignment-length diagnostic and the
\* result is false, whatever the segment slices of the rows are.
C11_LengthsEqualOrReported ==
  (C11_Scope /\ ckPc = "returned") =>
    \/ \A m, n \in 1..Len(ckDataset.rows) :
         ckDataset.rows[m].cognateset = ckDataset.rows[n].cognateset =>
           Len(ckDataset.rows[m].alignment) = Len(ckDataset.rows[n].alignment)
    \/ /\ \E n \in 1..Len(ckDataset.rows) : Reported(n, "alignment length")
       /\ ckResult = FALSE

\* C12: with a segment slice column and a log, a row with an empty segment
\* slice gives a diagnostic and makes the result false.
C12_EmptySliceIsAViolation ==
  (ckDataset.shape = "ok" /\ ~ckDataset.strict /\ ckDataset.hasSlice /\ ckPc = "returned") =>
    \A n \in 1..Len(ckDataset.rows) :
      ckDataset.rows[n].slice = <<>> =>
        /\ Reported(n, "empty segment slice")
        /\ ckResult = FALSE

\* there is no CognateTable, or it has neither of the two columns
C13_Nothing ==
  \/ ckDataset.shape = "no CognateTable"
  \/ ckDataset.shape = "ok" /\ ~ckDataset.hasSlice /\ ~ckDataset.hasAlignment

\* C13: without a CognateTable, and with a CognateTable that has neither a
\* segment slice nor an alignment column, the result is true, with a log and
\* without one, and no row is looked at.
C13_NothingToCheckIsTrue ==
  C13_Nothing => (ckPc = "returned" /\ ckResult = TRUE /\ ckRow = 0)

\* row n of the table breaks a rule: its slice is empty or out of range, the
\* length of its alignment is not the one an earlier row of its cognate set
\* has, or its alignment differs from the segments
C14_Violates(n) ==
  LET d == ckDataset
      r == d.rows[n]
      segments == FormSegments[r.form]
      indices == parse_segment_slices(r.slice)
      selected == IF d.hasSlice
                  THEN SelectSeq(indices, LAMBDA i : i < Len(segments))
                  ELSE [i \in 1..Len(segments) |-> i - 1]
  IN  \/ d.hasSlice /\ r.slice = <<>>
      \/ d.hasSlice /\ \E i \in 1..Len(indices) : indices[i] >= Len(segments)
      \/ d.hasAlignment /\ \E m \in 1..(n - 1) :
           /\ d.rows[m].cognateset = r.cognateset
           /\ Len(d.rows[m].alignment) # Len(r.alignment)
      \/ d.hasAlignment /\
           SelectSeq(r.alignment, LAMBDA c : c # <<"-">>)
             # [i \in 1..Len(selected) |-> segments[selected[i] + 1]]

\* C14: without a log the first violation ends the call with an exception at
\* its row, and there is no result; with a log no violation ends the call
\* with an exception.
C14_OnlyStrictModeIsFatal ==
  (ckDataset.shape = "ok" /\ ckDataset.hasSlice /\ ckDataset.hasAlignment) =>
    /\ ckDataset.strict =>
         /\ \A n \in 1..ckRow : C14_Violates(n) =>
              ckPc = "raised" /\ ckRow = n /\ ckResult = NoResult
         /\ ckPc = "raised" => C14_Violates(ckRow)
    /\ ~ckDataset.strict => ckPc # "raised"

\* C18: with a log, a row whose segment slice is out of range gets no
\* alignment diagnostic, no exception leaves the call, and the later rows
\* are looked at until a boolean is returned.
C18_OutOfRangeRowIsSkipped ==
  C9_Scope =>
    /\ ckPc # "raised"
    /\ \A n \in 1..ckRow :
         C9_OutOfRange(n) =>
           ~Reported(n, "alignment length") /\ ~Reported(n, "alignment and segments differ")

\* row n has been taken by the loop and has come to the check of its length
C19_Examined(n) ==
  /\ n <= ckRow
  /\ ckDataset.hasSlice => ckDataset.rows[n].slice # <<>>

\* the first such row of cognate set c, 0 when there is none
C19_First(c) ==
  LET S == {n \in 1..Len(ckDataset.rows) :
              C19_Examined(n) /\ ckDataset.rows[n].cognateset = c}
  IN  IF S = {} THEN 0 ELSE Min(S)

C19_GapFreeLength(n) ==
  Cardinality({i \in 1..Len(ckDataset.rows[n].alignment) :
                 ckDataset.rows[n].alignment[i] # <<"-">>})

\* C19 as the specification has it: the length is counted without the gaps
C19_GapFreeLengthIsCompared ==
  C11_Scope =>
    /\ \A c \in CognateSets :
         ckLengths[c] = IF C19_First(c) = 0 THEN {} ELSE {C19_GapFreeLength(C19_First(c))}
    /\ \A n \in 1..Len(ckDataset.rows) :
         C19_Examined(n) =>
           (Reported(n, "alignment length") <=>
              C19_GapFreeLength(n)
                # C19_GapFreeLength(C19_First(ckDataset.rows[n].cognateset)))

\* C19: the length recorded for a cognate set is the number of entries of
\* the alignment, gaps counted, of the first row of the set that comes to
\* the check; it is never changed, and a later row of the set is reported
\* exactly when the number of entries of its alignment differs from it.
C19_LengthWithGapsIsCompared ==
  C11_Scope =>
    /\ \A c \in CognateSets :
         ckLengths[c] = IF C19_First(c) = 0 THEN {}
                        ELSE {Len(ckDataset.rows[C19_First(c)].alignment)}
    /\ \A n \in 1..Len(ckDataset.rows) :
         C19_Examined(n) =>
           /\ Reported(n, "alignment length") <=>
                Len(ckDataset.rows[n].alignment)
                  # Len(ckDataset.rows[C19_First(ckDataset.rows[n].cognateset)].alignment)
           /\ Reported(n, "alignment length") => ~ckOkay

\* "t - u" after "t u" in one cognate set: the same segments, another length
C19_Witness ==
  /\ C11_Scope
  /\ ckPc = "returned"
  /\ ckRow = 2
  /\ ckDataset.rows[1].cognateset = ckDataset.rows[2].cognateset
  /\ C19_GapFreeLength(1) = C19_GapFreeLength(2)
  /\ Reported(2, "alignment length")
  /\ ckResult = FALSE

----------------------------------------------------------------------------
(* Claims about variants_separator, checked under SpecVariants *)

\* the field has neither "~" nor "%"
C16_NoMarker ==
  \A i \in 1..Len(vsString) : vsString[i] # "~" /\ vsString[i] # "%"

\* the call returned the field as it was and left variants_list alone, and
\* so does a second call on what it returned
C16_Unchanged ==
  /\ vsResult = [error |-> NoError, first |-> vsString, variants |-> vsList]
  /\ variants_separator(vsResult.variants, vsResult.first) = vsResult

\* C16 as the specification has it: every field without a marker comes back
\* unchanged
C16_EveryFieldWithoutMarker ==
  (vsPc = "returned" /\ C16_NoMarker) => C16_Unchanged

\* C16: a field with neither "~" nor "%" nor ";" comes back unchanged,
\* spaces included, variants_list is left as it was, and a second call on
\* the result changes nothing; a field with ";" raises SeparatorCellError,
\* with variants_list left as it was.
C16_FieldWithoutMarkerAndSemicolon ==
  (vsPc = "returned" /\ C16_NoMarker) =>
    IF \E i \in 1..Len(vsString) : vsString[i] = ";"
    THEN vsResult.error = "SeparatorCellError" /\ vsResult.variants = vsList
    ELSE C16_Unchanged

\* a field with spaces has come back while variants_list held two variants
C16_Witness ==
  /\ vsPc = "returned"
  /\ C16_NoMarker
  /\ \E i \in 1..Len(vsString) : vsString[i] = " "
  /\ Len(vsList) = 2
  /\ vsResult.first = vsString
  /\ vsResult.variants = vsList

----------------------------------------------------------------------------
(* Claims about the comment of a record, checked under Spec *)

\* the comment begins with "(" and ends with ")"
C20_Wrapped(comment) ==
  Len(comment) >= 2 /\ comment[1] = "(" /\ comment[Len(comment)] = ")"

\* C20: in every record parse yields for a form-string other than "...",
\* the comment is empty or begins with "(" and ends with ")".
C20_CommentEmptyOrWrapped ==
  \A n \in 1..Len(yielded) :
    yielded[n] # AllNone => (yielded[n][4] = <<>> \/ C20_Wrapped(yielded[n][4]))

----------------------------------------------------------------------------
(* Claims about the cognate export, checked under SpecExport *)

\* the rows of the sheet that are singleton cognate sets
C17_SingletonRows == SelectSeq(exSheet, LAMBDA r : r.id[1] = "X")

\* C17: the saved sheet has one singleton row for every form without a
\* judgement when --add-singletons or --add-singletons-with-status MESSAGE
\* was given, with MESSAGE in its status column if there is one, and no
\* singleton row when neither option was given.
C17_SingletonsExactlyWhenAsked ==
  exPc = "saved" =>
    IF exArgv = <<>>
    THEN C17_SingletonRows = <<>>
    ELSE /\ Len(C17_SingletonRows) = Len(RemainingForms(exDataset))
         /\ \A i \in 1..Len(C17_SingletonRows) :
              /\ C17_SingletonRows[i].name = RemainingForms(exDataset)[i].id
              /\ exDataset.hasStatus => C17_SingletonRows[i].status = parse_args(exArgv)

----------------------------------------------------------------------------
(* The round trip from a record back to its form-string, checked under Spec *)

\* a record has just been yielded for the form-string LastElement
C15_Yielded == Consumed /\ lastYield /\ LastElement # Placeholder

C15_Record == yielded[Len(yielded)]

\* s without its white space
C15_NoSpace(s) == SelectSeq(s, LAMBDA x : x \notin WhiteSpace)

\* the fields of the record joined in the order p, the comment among them
C15_Joined(p) ==
  C15_Record[p[1]] \o C15_Record[p[2]] \o C15_Record[p[3]] \o C15_Record[p[4]]
    \o C15_Record[p[5]]

\* s and t have the same characters, as often, white space aside
C15_SameCharacters(s, t) ==
  /\ Len(C15_NoSpace(s)) = Len(C15_NoSpace(t))
  /\ \A i \in 1..Len(s) : s[i] \in WhiteSpace \/ Count(s, s[i]) = Count(t, s[i])

\* f is empty or a piece of s, white space included
C15_IsSpan(f, s) ==
  f = <<>> \/ \E a \in 1..(Len(s) - Len(f) + 1) : Sub(s, a, a + Len(f) - 1) = f

----------------------------------------------------------------------------
(* Claims about the comment and the remainder, checked under Spec *)

\* as many "(" as ")"
C21_Balanced(comment) == Count(comment, "(") = Count(comment, ")")

\* parse_form has returned fields for the form-string consumed last
C21_Returned == Consumed /\ LastElement # Placeholder /\ lastForm.error = NoError

\* C21: every comment of a yielded record has as many "(" as ")"; when the
\* comment parse_form returns has not, it has been enclosed in one more
\* pair all the same, the form-string is refused with an error that parse
\* catches, and no record is yielded for it.
C21_CommentsAreBalanced ==
  /\ \A n \in 1..Len(yielded) :
       (yielded[n] # AllNone /\ yielded[n][4] # <<>>) => C21_Balanced(yielded[n][4])
  /\ (C21_Returned /\ ~C21_Balanced(lastForm.form_cell[4])) =>
       /\ C20_Wrapped(lastForm.form_cell[4])
       /\ ~lastYield
       /\ pc # "raised"
       /\ logged # <<>>
       /\ logged[Len(logged)] \in {"FormCellError", "SeparatorCellError"}

\* a form-string with a transcription and the comment "(d))" has been refused
C21_Witness ==
  /\ C21_Returned
  /\ ~C21_Balanced(lastForm.form_cell[4])
  /\ \E k \in 1..3 : lastForm.form_cell[k] # None
  /\ ~lastYield
  /\ logged[Len(logged)] = "FormCellError"

\* the comment loop of parse_form as it ends for the form-string consumed last
C22_Loop == DescriptionLoop(FormPatterns([ele |-> LastElement, d |-> <<>>], 1).ele, <<>>)

\* what the loop has left of the form-string, without the spaces around it
C22_Remainder(loop) == StripChars(loop.ele, {" "})

\* the form-string consumed last has been given to parse_form
C22_Called == Consumed /\ LastElement # Placeholder

\* C22: text left over without any of < / [ { is put at the end of the
\* comment, after the comments in parentheses; text left over with one of
\* them is an incomplete-parse error, and the form-string yields no record.
C22_RemainderIsCommentOrError ==
  C22_Called =>
    \A loop \in {C22_Loop} : \A rest \in {C22_Remainder(loop)} :
      (loop.error = NoError /\ rest # <<>>) =>
        IF \E i \in 1..Len(rest) : rest[i] \in {"<", "/", "[", "{"}
        THEN /\ lastForm.error = "FormCellError"
             /\ lastForm.why = "IncompleteParsingError"
             /\ ~lastYield
             /\ pc # "raised"
             /\ logged # <<>>
             /\ logged[Len(logged)] = "FormCellError"
        ELSE /\ lastForm.error = NoError
             /\ lastForm.form_cell[4] \in
                  { loop.mydescription \o rest,
                    <<"(">> \o loop.mydescription \o rest \o <<")">> }

\* plain text left over after a comment is the end of the yielded comment
C22_Witness ==
  /\ pc = "done"
  /\ Len(values) = 1
  /\ lastYield
  /\ \E loop \in {C22_Loop} :
       /\ loop.error = NoError
       /\ loop.mydescription # <<>>
       /\ C22_Remainder(loop) # <<>>
       /\ yielded[1][4] = loop.mydescription \o C22_Remainder(loop)

----------------------------------------------------------------------------
(* Claims about the fields given to variants_separator, checked under Spec *)

\* parse_form has returned a phonemic, phonetic or orthographic field with ";"
C23_SemicolonField ==
  /\ lastForm.error = NoError
  /\ \E k \in 1..3 : lastForm.form_cell[k] # None /\ Has(lastForm.form_cell[k], ";")

----------------------------------------------------------------------------
(* Claims about the segments of a field with markers, checked under
   SpecVariants *)

\* an opener, a content without marker, and the closer of the opener
C24_WellFormed(segment) ==
  /\ Len(segment) >= 2
  /\ segment[1] \in DOMAIN closers
  /\ segment[Len(segment)] = closers[segment[1]]
  /\ \A i \in 1..Len(segment) : segment[i] \notin Markers

\* C24: for a field with "~", "%" or both, the value returned and every
\* entry added to variants_list is one bracketed segment without a marker
\* inside it, the entry with a marker of the field before it.
C24_SegmentsAreWellFormed ==
  (vsPc = "returned" /\ vsResult.error = NoError /\ ~C16_NoMarker) =>
    /\ C24_WellFormed(vsResult.first)
    /\ Len(vsResult.variants) > Len(vsList)
    /\ \A k \in (Len(vsList) + 1)..Len(vsResult.variants) :
         /\ vsResult.variants[k][1] \in Markers
         /\ Has(vsString, vsResult.variants[k][1])
         /\ C24_WellFormed(Tail(vsResult.variants[k]))

----------------------------------------------------------------------------
(* Claims about the variants of a record, checked under Spec *)

\* the variants of one field of the form-string, split on their own
C25_Of(field) ==
  IF field = None \/ field = <<>> THEN <<>> ELSE variants_separator(<<>>, field).variants

\* C25: in every call of parse, whatever was parsed before, the variants of
\* a yielded record are the variants of the phonemic, then of the phonetic,
\* then of the orthographic field of its own form-string, joined by ",",
\* and nothing else.
C25_VariantsOfTheFormString ==
  C15_Yielded =>
    C15_Record[6] = Join(<<",">>, C25_Of(lastForm.form_cell[1])
                                    \o C25_Of(lastForm.form_cell[2])
                                    \o C25_Of(lastForm.form_cell[3]))

\* a record with a variant of each of the three fields has been yielded
C25_Witness ==
  /\ C15_Yielded
  /\ \A k \in 1..3 : C25_Of(lastForm.form_cell[k]) # <<>>
  /\ Len(C15_Record[6]) > 8

----------------------------------------------------------------------------
(* Claims about the first step of parse and about separate, checked under
   Spec *)

\* t has a "#", at least one character, and another "#"
C26_HasIgnoredSpan(t) ==
  \E i, j \in 1..Len(t) : j > i + 1 /\ t[i] = "#" /\ t[j] = "#"

\* C26: once the first step of parse has run, no form-string of self.values
\* has a span between two "#" left in it, wherever the span was in the cell.
C26_NoIgnoredSpanIsLeft ==
  pc # "idle" => \A k \in 1..Len(values) : ~C26_HasIgnoredSpan(values[k])

\* the pieces separator_pattern.split gives for the cell, trimmed
C27_Trimmed ==
  LET elements == SplitSeparator(C2_Text, 1)
  IN  [k \in 1..Len(elements) |-> StripChars(elements[k], WhiteSpace)]

\* n times the character c
C27_Run(c, n) == [i \in 1..n |-> c]

\* C27 as the specification has it: the last piece loses one character, a
\* linebreak, "," or ";", when it ends with one, and no more
C27_OneSeparatorIsRemoved ==
  pc \in {"iter", "done"} =>
    \A trimmed \in {C27_Trimmed} : \A last \in {trimmed[Len(trimmed)]} :
      /\ Len(values) = Len(trimmed)
      /\ \A k \in 1..(Len(values) - 1) : values[k] = trimmed[k]
      /\ values[Len(values)] =
           IF last # <<>> /\ last[Len(last)] \in {"\n", ",", ";"}
           THEN Sub(last, 1, Len(last) - 1)
           ELSE last

\* C27: every piece but the last is the piece trimmed of its white space;
\* the last piece, trimmed, loses all the "," at its end and then all the
\* ";" at the end of what is left.
C27_AllSeparatorsAreRemoved ==
  pc \in {"iter", "done"} =>
    \A trimmed \in {C27_Trimmed} : \A last \in {trimmed[Len(trimmed)]} :
      /\ Len(values) = Len(trimmed)
      /\ \A k \in 1..(Len(values) - 1) : values[k] = trimmed[k]
      /\ \E m, n \in 0..Len(last) : \A v \in {values[Len(values)]} :
           /\ last = v \o C27_Run(";", m) \o C27_Run(",", n)
           /\ v = <<>> \/ v[Len(v)] # ";"
           /\ m = 0 => (v = <<>> \/ v[Len(v)] # ",")

\* a last piece has lost two or more characters at its end
C27_Witness ==
  /\ pc = "done"
  /\ values # <<>>
  /\ yielded # <<>>
  /\ Len(values[Len(values)]) + 2 <= Len(C27_Trimmed[Len(values)])

----------------------------------------------------------------------------
(* Termination of parse, checked under Spec *)

RECURSIVE C28_IgnoreLoop(_)
\* every pass of the while loop of parse leaves a shorter text
C28_IgnoreLoop(s) ==
  \A m \in {ignore_pattern(s)} :
    m.matched => /\ Len(m.g1 \o m.g2) < Len(s)
                 /\ C28_IgnoreLoop(m.g1 \o m.g2)

RECURSIVE C28_CommentLoop(_)
\* every pass of the while loop of parse_form leaves a shorter text, or raises
C28_CommentLoop(ele) ==
  \A m \in {description_pattern(ele)} :
    (m.matched /\ DescriptionAccepted(m.g2)) =>
      /\ Len(DeleteMatch(ele, m)) < Len(ele)
      /\ C28_CommentLoop(DeleteMatch(ele, m))

\* one replace leaves no space, so the loops "while ' ' in text" end after it
C28_SpaceLoopsEnd ==
  /\ ~Has(RemoveChar(LastElement, " "), " ")
  /\ lastForm.error = NoError =>
       \A k \in 1..3 : lastForm.form_cell[k] # None =>
                         ~Has(RemoveChar(lastForm.form_cell[k], " "), " ")

\* what is true of every state of a call of parse
C28_Bounded ==
  /\ pc # "idle" => C28_IgnoreLoop(cell)
  /\ C22_Called =>
       /\ C28_CommentLoop(FormPatterns([ele |-> LastElement, d |-> <<>>], 1).ele)
       /\ C28_SpaceLoopsEnd
  /\ idx <= Len(values)
  /\ Len(yielded) <= idx
  /\ Len(yielded) + Len(logged) + (IF pc = "raised" THEN 1 ELSE 0) = idx

\* a step of a call of parse takes the next form-string or ends the call
C28_Progress ==
  pc = "iter" => \/ pc' \in {"done", "raised"}
                 \/ pc' = "iter" /\ idx' = idx + 1

\* C28: parsing a cell ends: every pass of the '#' loop of parse and of the
\* comment loop of parse_form shortens its text or raises, the space loops
\* end, there is at most one record per form-string, and every step of a
\* call of parse either ends the call or moves to the next of its finitely
\* many form-strings.
C28_ParsingTerminates == []C28_Bounded /\ [][C28_Progress]_vars

\* a call has ended after a pass of the '#' loop and a pass of the comment
\* loop, and has yielded the record of its last form-string
C28_Witness ==
  /\ pc = "done"
  /\ ignore_pattern(cell).matched
  /\ lastYield
  /\ \E m \in {description_pattern(FormPatterns([ele |-> LastElement, d |-> <<>>], 1).ele)} :
       m.matched /\ DescriptionAccepted(m.g2)

----------------------------------------------------------------------------
(* The order of the judgements, checked under SpecCognate *)

RECURSIVE C29_Rows(_, _, _)
\* the for loop over the judgements of d from row n on, left by an exception
C29_Rows(st, d, n) ==
  IF n > Len(d.rows) \/ st.exception # NoError THEN st
  ELSE C29_Rows(ProcessRow([okay |-> st.okay, lengths |-> st.lengths, log |-> st.log,
                            exception |-> NoError], d, n), d, n + 1)

\* what a call of check_cognate_table on d gives: the boolean it returns
\* (NoResult when it raises) and its diagnostics
C29_Call(d) ==
  LET p == Prologue(d)
      st == C29_Rows([okay |-> TRUE, lengths |-> [c \in CognateSets |-> {}],
                      log |-> p.log, exception |-> NoError], d, 1)
  IN  IF p.done \/ p.exception # NoError THEN [result |-> p.result, log |-> p.log]
      ELSE [result |-> IF st.exception # NoError THEN NoResult ELSE st.okay,
            log |-> st.log]

\* the datasets with the judgements of d in another order
C29_Permuted(d) ==
  LET k == Len(d.rows)
  IN  { [d EXCEPT !.rows = [i \in 1..k |-> d.rows[f[i]]]] :
          f \in {g \in [1..k -> 1..k] : \A i, j \in 1..k : g[i] = g[j] => i = j} }

\* a call without strict mode has come to its end
C29_Ended == ckPc \in {"returned", "raised"} /\ ~ckDataset.strict

\* C29: without strict mode, the boolean that check_cognate_table returns is
\* the same for every order of the same judgement rows (and a call that
\* raises for one order returns no boolean for any order).
C29_ResultIsOrderIndependent ==
  C29_Ended => \A e \in C29_Permuted(ckDataset) : C29_Call(e).result = ckResult

\* two judgements of one cognate set with alignments of different lengths:
\* whichever comes second is the one reported, and the result is False
C29_Witness ==
  /\ ckPc = "returned"
  /\ ~ckDataset.strict
  /\ Len(ckDataset.rows) = 2
  /\ ckDataset.rows[1] # ckDataset.rows[2]
  /\ ckResult = FALSE
  /\ ckLog = << <<2, "alignment length">> >>
  /\ \E e \in C29_Permuted(ckDataset) :
       e.rows[2] # ckDataset.rows[2] /\ C29_Call(e).log = ckLog

----------------------------------------------------------------------------
(* The patterns of a constructed parser, checked under SpecConstruct *)

\* C30: a parser constructed with pattern arguments that are not None has
\* exactly those patterns for parsing, the default settings are used only
\* when no pattern argument is given, and the default settings are never
\* modified.
C30_GivenPatternsAreUsed ==
  /\ cpPc # "idle" =>
       /\ \A name \in DOMAIN cpArgs :
            cpArgs[name] # None => cpSelf[name] = cpArgs[name]
       /\ cpSelf = lexical_parser_default_settings =>
            \A name \in DOMAIN cpArgs : cpArgs[name] = None
  /\ cpDefaults = lexical_parser_default_settings
====
